---------------------------- MODULE Spec2Model ----------------------------
(***************************************************************************)
(* A model of src/app.py: the story-assembly pipeline of the AI story      *)
(* generator (candidate-term selection, definition lookup with retry,      *)
(* the JSON fallback ladder, the image fan-out and the three operations    *)
(* Create, Regenerate and Continue).                                       *)
(*                                                                         *)
(* Text is modelled at character level: a string is a sequence of ASCII    *)
(* codes, so lower(), isupper(), len() and the regular expressions are     *)
(* computed, not assumed.                                                  *)
(***************************************************************************)
EXTENDS Integers, Sequences, FiniteSets, TLC

VARIABLES
    pc,        \* position of the component under test ("ready" / "done")
    text,      \* chapter text handed to extract_terminology
    selected,  \* selected_words computed by extract_terminology
    oracle,    \* what the text model answers to the definition prompts
    glossary,  \* the mapping extract_terminology returned
    calls,     \* the text-model calls extract_terminology made
    story,     \* the story the caller holds between requests
    cover,     \* the cover image URL the caller holds
    last,      \* the last request and the response the caller received
    response,  \* a raw response text handed to the fallback ladder
    extracted, \* what the fallback ladder made of it
    reqs,      \* the requests in flight, each with its story and futures
    tasks,     \* the tasks submitted to the process-wide executor
    completed  \* the tasks in the order in which they completed

vars == <<pc, text, selected, oracle, glossary, calls, story, cover, last,
          response, extracted, reqs, tasks, completed>>

(***************************************************************************)
(* Bounds of the model.                                                    *)
(***************************************************************************)
MaxTokens == 3      \* free tokens appended to a text in SpecSelect

(***************************************************************************)
(* Characters (ASCII codes) and the string methods the code uses.          *)
(***************************************************************************)
IsUpperChar(c) == c \in 65..90
IsLowerChar(c) == c \in 97..122
IsLetter(c)    == IsUpperChar(c) \/ IsLowerChar(c)
IsDigit(c)     == c \in 48..57
\* \w of the re module on ASCII text: letters, digits and the underscore
IsWordChar(c)  == IsLetter(c) \/ IsDigit(c) \/ c = 95

\* str.lower()
LowerChar(c) == IF IsUpperChar(c) THEN c + 32 ELSE c
Lower(w) == [i \in 1..Len(w) |-> LowerChar(w[i])]

\* str.isupper(): at least one cased character and no lowercase one
IsUpper(w) ==
    /\ \E i \in 1..Len(w) : IsUpperChar(w[i])
    /\ \A i \in 1..Len(w) : ~IsLowerChar(w[i])

\* the comparison of two str values: lexicographic on the code points
RECURSIVE StrLess(_, _)
StrLess(a, b) ==
    IF b = <<>> THEN FALSE
    ELSE IF a = <<>> THEN TRUE
    ELSE IF Head(a) # Head(b) THEN Head(a) < Head(b)
    ELSE StrLess(Tail(a), Tail(b))

(***************************************************************************)
(* extract_terminology, lines 137-169: candidate selection.                *)
(***************************************************************************)
MinRun == 5         \* the {5,} of the regular expression
MinLen == 6         \* len(word) >= 6
TopN   == 5         \* [:5]

\* end of the run of letters that starts at i (greedy [A-Za-z]{5,})
RECURSIVE RunEnd(_, _)
RunEnd(t, i) ==
    IF i < Len(t) /\ IsLetter(t[i + 1]) THEN RunEnd(t, i + 1) ELSE i

\* \b before position i / after position j
BoundaryBefore(t, i) == i = 1 \/ ~IsWordChar(t[i - 1])
BoundaryAfter(t, j)  == j = Len(t) \/ ~IsWordChar(t[j + 1])

\* re.findall(r'\b[A-Za-z]{5,}\b', text): scan left to right; a match
\* consumes its run, a failed position advances by one character
RECURSIVE Scan(_, _, _)
Scan(t, i, acc) ==
    IF i > Len(t) THEN acc
    ELSE IF IsLetter(t[i]) /\ BoundaryBefore(t, i)
         THEN LET j == RunEnd(t, i) IN
              IF j - i + 1 >= MinRun /\ BoundaryAfter(t, j)
              THEN Scan(t, j + 1, Append(acc, SubSeq(t, i, j)))
              ELSE Scan(t, i + 1, acc)
         ELSE Scan(t, i + 1, acc)

FindAll(t) == Scan(t, 1, <<>>)

\* the stoplist, lines 140-146
common_words == {
    <<116,104,101,114,101>>,   \* there
    <<116,104,101,105,114>>,   \* their
    <<119,111,117,108,100>>,   \* would
    <<99,111,117,108,100>>,   \* could
    <<115,104,111,117,108,100>>,   \* should
    <<97,98,111,117,116>>,   \* about
    <<119,104,105,99,104>>,   \* which
    <<116,104,101,115,101>>,   \* these
    <<116,104,111,115,101>>,   \* those
    <<119,101,114,101>>,   \* were
    <<104,97,118,101>>,   \* have
    <<116,104,97,116>>,   \* that
    <<119,104,97,116>>,   \* what
    <<119,104,101,110>>,   \* when
    <<119,104,101,114,101>>,   \* where
    <<119,104,105,108,101>>,   \* while
    <<102,114,111,109>>,   \* from
    <<98,101,101,110>>,   \* been
    <<98,101,105,110,103>>,   \* being
    <<111,116,104,101,114>>,   \* other
    <<97,110,111,116,104,101,114>>,   \* another
    <<101,118,101,114,121>>,   \* every
    <<101,118,101,114,121,116,104,105,110,103>>,   \* everything
    <<115,111,109,101,116,104,105,110,103>>,   \* something
    <<97,110,121,116,104,105,110,103>>,   \* anything
    <<110,111,116,104,105,110,103>>,   \* nothing
    <<116,104,114,111,117,103,104>>,   \* through
    <<97,108,116,104,111,117,103,104>>,   \* although
    <<116,104,111,117,103,104>>,   \* though
    <<119,105,116,104,111,117,116>>,   \* without
    <<119,105,116,104,105,110>>,   \* within
    <<97,114,111,117,110,100>>,   \* around
    <<98,101,102,111,114,101>>,   \* before
    <<97,102,116,101,114>>,   \* after
    <<117,110,100,101,114>>,   \* under
    <<111,118,101,114>>,   \* over
    <<98,101,99,97,117,115,101>>   \* because
}

\* the filter of lines 152-157
KeepWord(word) ==
    /\ Lower(word) \notin common_words
    /\ ~IsUpper(word)
    /\ Len(word) >= MinLen
    /\ ~\E i \in 1..Len(word) : IsDigit(word[i])

filtered_words(words) == SelectSeq(words, KeepWord)

\* lines 161-166: drop a word whose lowercase form was already seen
RECURSIVE Dedup(_, _)
Dedup(words, acc) ==
    IF words = <<>> THEN acc
    ELSE LET w == Head(words)
             seen_words == {Lower(acc[i]) : i \in 1..Len(acc)}
         IN  Dedup(Tail(words),
                   IF Lower(w) \notin seen_words THEN Append(acc, w) ELSE acc)

unique_words(words) == Dedup(words, <<>>)

\* a mutant of the sort key: only the length is reversed, the lowercase
\* form ascends
KeyLessAscendingTies(a, b) ==
    \/ Len(a) < Len(b)
    \/ Len(a) = Len(b) /\ StrLess(Lower(b), Lower(a))

\* key=lambda x: (len(x), x.lower()): the order of the key tuples
KeyLess(a, b) ==
    \/ Len(a) < Len(b)
    \/ Len(a) = Len(b) /\ StrLess(Lower(a), Lower(b))

\* sorted(..., reverse=True): descending by key, equal keys in input order
RECURSIVE InsertDesc(_, _)
InsertDesc(s, x) ==
    IF s = <<>> THEN <<x>>
    ELSE IF KeyLess(Head(s), x) THEN <<x>> \o s
    ELSE <<Head(s)>> \o InsertDesc(Tail(s), x)

RECURSIVE SortedDesc(_, _)
SortedDesc(words, acc) ==
    IF words = <<>> THEN acc
    ELSE SortedDesc(Tail(words), InsertDesc(acc, Head(words)))

Take(s, n) == SubSeq(s, 1, IF Len(s) < n THEN Len(s) ELSE n)

\* line 169
selected_words(t) ==
    Take(SortedDesc(unique_words(filtered_words(FindAll(t))), <<>>), TopN)


(***************************************************************************)
(* SpecSelect: candidate selection applied to a bounded set of texts.      *)
(***************************************************************************)
\* the tokens texts are built from: a plain word, the same word in another
\* casing, a word of equal length, an acronym, a stoplist word, a short
\* word, a long word, a word with a digit
Vocabulary == {
    <<100,114,97,103,111,110>>,   \* dragon
    <<68,114,97,103,111,110>>,   \* Dragon
    <<99,97,115,116,108,101>>,   \* castle
    <<75,78,73,71,72,84>>,   \* KNIGHT
    <<98,101,99,97,117,115,101>>,   \* because
    <<115,119,111,114,100>>,   \* sword
    <<101,110,99,104,97,110,116,101,100>>,   \* enchanted
    <<112,111,116,105,111,110,55>>   \* potion7
}

\* "mysterious ancient forest whispered": four candidates, so that with
\* three more tokens the cut at five words happens
LongPrefix == <<109,121,115,116,101,114,105,111,117,115,32,97,110,99,105,101,110,116,32,102,111,114,101,115,116,32,119,104,105,115,112,101,114,101,100>>

Space  == <<32>>
Period == <<46>>

RECURSIVE Join(_)
Join(tokens) ==
    IF tokens = <<>> THEN <<>>
    ELSE IF Len(tokens) = 1 THEN Head(tokens)
    ELSE Head(tokens) \o Space \o Join(Tail(tokens))

TokenSeqs == UNION {[1..k -> Vocabulary] : k \in 0..MaxTokens}

Texts ==
    {Join(ts) \o Period : ts \in TokenSeqs}
    \cup {Join(<<LongPrefix>> \o ts) \o Period : ts \in TokenSeqs}

NoValue == [absent |-> TRUE]

InitSelect ==
    /\ pc = "ready"
    /\ text \in Texts
    /\ selected = <<>>
    /\ oracle = NoValue
    /\ glossary = NoValue
    /\ calls = <<>>
    /\ story = NoValue
    /\ cover = NoValue
    /\ last = NoValue
    /\ response = NoValue
    /\ extracted = NoValue
    /\ reqs = NoValue
    /\ tasks = NoValue
    /\ completed = NoValue

\* one run of the candidate selection of extract_terminology
Select ==
    /\ pc = "ready"
    /\ selected' = selected_words(text)
    /\ pc' = "done"
    /\ UNCHANGED <<text, oracle, glossary, calls, story, cover, last,
                 response, extracted, reqs, tasks, completed>>

NextSelect == Select

SpecSelect == InitSelect /\ [][NextSelect]_vars

(***************************************************************************)
(* The reference selection of claim C6, stated on the text and not on the  *)
(* scanner: the words are the maximal runs of word characters.             *)
(***************************************************************************)
RefStarts(t) ==
    {i \in 1..Len(t) : IsWordChar(t[i]) /\ (i = 1 \/ ~IsWordChar(t[i - 1]))}

RefEnd(t, i) ==
    CHOOSE j \in i..Len(t) :
        /\ \A k \in i..j : IsWordChar(t[k])
        /\ (j = Len(t) \/ ~IsWordChar(t[j + 1]))

RefWord(t, i) == SubSeq(t, i, RefEnd(t, i))

RefKeep(w) ==
    /\ Len(w) >= 6
    /\ \A k \in 1..Len(w) : IsLetter(w[k])
    /\ \E k \in 1..Len(w) : IsLowerChar(w[k])
    /\ Lower(w) \notin common_words

RefCandidates(t) == {i \in RefStarts(t) : RefKeep(RefWord(t, i))}

\* first-seen casing of every distinct candidate
RefUnique(t) ==
    {RefWord(t, i) : i \in
        {i \in RefCandidates(t) :
            \A h \in RefCandidates(t) :
                h < i => Lower(RefWord(t, h)) # Lower(RefWord(t, i))}}

\* length descending, then lowercase ascending (the order the claim states)
BeforeAscending(a, b) ==
    \/ Len(a) > Len(b)
    \/ Len(a) = Len(b) /\ StrLess(Lower(a), Lower(b))

\* length descending, then lowercase descending
BeforeDescending(a, b) ==
    \/ Len(a) > Len(b)
    \/ Len(a) = Len(b) /\ StrLess(Lower(b), Lower(a))

Range(s) == {s[i] : i \in 1..Len(s)}

IsTopRanked(r, U, Before(_, _)) ==
    /\ Len(r) = (IF Cardinality(U) < 5 THEN Cardinality(U) ELSE 5)
    /\ Range(r) \subseteq U
    /\ \A i, j \in 1..Len(r) : i < j => Before(r[i], r[j])
    /\ \A u \in U \ Range(r) : \A i \in 1..Len(r) : Before(r[i], u)

\* C6 as stated: the selection is the reference with ties broken by the
\* lowercase form ascending.  Violated by the code.
C6_SelectionAscendingTies ==
    pc = "done" => IsTopRanked(selected, RefUnique(text), BeforeAscending)

\* C6 amended: the selection is a function of the text equal to the
\* reference (words of at least 6 letters, not in the stoplist, not
\* all-uppercase, no digit, deduplicated case-insensitively keeping the
\* first-seen casing, first 5) ranked by length descending and, among
\* equal lengths, by lowercase form descending.
C6_SelectionDescendingTies ==
    pc = "done" => IsTopRanked(selected, RefUnique(text), BeforeDescending)

\* a run where more than five candidates exist, the cut happens and two
\* selected words tie on length
C6_Witness ==
    /\ pc = "done"
    /\ Cardinality(RefUnique(text)) > 5
    /\ Len(selected) = 5
    /\ \E i, j \in 1..Len(selected) :
           i < j /\ Len(selected[i]) = Len(selected[j])

(***************************************************************************)
(* The raw text of a model response.  A response text is a sequence of     *)
(* tokens: "prose" (text with no brace and no backtick), "fence_json"      *)
(* (```json), "fence" (```), "obj" (the text of a well-formed JSON object, *)
(* v is what json.loads makes of it), "val" (a well-formed JSON value that *)
(* is no object, such as []), "lbrace" and "rbrace" (a stray brace).       *)
(* White space between tokens is not represented.                          *)
(***************************************************************************)
Tok(k)       == [k |-> k, v |-> NoValue]
ObjTok(v)    == [k |-> "obj", v |-> [json |-> v]]
\* what json.loads returns for a JSON value that is no object: subscripting
\* it with a string key raises, like a missing key does
NonObject    == [jsontype |-> "array"]
ValTok       == [k |-> "val", v |-> NoValue]

IsFence(t)      == t.k \in {"fence", "fence_json"}
HasOpenBrace(t) == t.k \in {"obj", "lbrace"}
HasCloseBrace(t) == t.k \in {"obj", "rbrace"}

Failed == [ok |-> FALSE, v |-> NoValue]
Ok(v)  == [ok |-> TRUE, v |-> v]

\* json.loads(s): s must be exactly one JSON value
JsonLoads(ts) ==
    IF Len(ts) = 1 /\ ts[1].k = "obj" THEN Ok(ts[1].v.json)
    ELSE IF Len(ts) = 1 /\ ts[1].k = "val" THEN Ok(NonObject)
    ELSE Failed

Min(S) == CHOOSE x \in S : \A y \in S : x <= y
Max(S) == CHOOSE x \in S : \A y \in S : x >= y

\* re.search(r'```json\s*(.*?)\s*```', s, re.DOTALL): the first ```json
\* that has a ``` after it, up to the nearest one; v is group(1)
SearchJsonFence(ts) ==
    LET opens == {i \in 1..Len(ts) :
                     /\ ts[i].k = "fence_json"
                     /\ \E j \in (i + 1)..Len(ts) : IsFence(ts[j])}
    IN  IF opens = {} THEN Failed
        ELSE LET i == Min(opens)
                 j == Min({j \in (i + 1)..Len(ts) : IsFence(ts[j])})
             IN  Ok(SubSeq(ts, i + 1, j - 1))

\* re.search(r'```\s*(.*?)\s*```', s, re.DOTALL), used on a text that holds
\* no ```json
SearchFence(ts) ==
    LET opens == {i \in 1..Len(ts) :
                     /\ IsFence(ts[i])
                     /\ \E j \in (i + 1)..Len(ts) : IsFence(ts[j])}
    IN  IF opens = {} THEN Failed
        ELSE LET i == Min(opens)
                 j == Min({j \in (i + 1)..Len(ts) : IsFence(ts[j])})
             IN  Ok(SubSeq(ts, i + 1, j - 1))

\* re.search(r'\{.*\}', s, re.DOTALL): from the first { to the last };
\* v is group(0)
SearchBraces(ts) ==
    LET opens  == {i \in 1..Len(ts) : HasOpenBrace(ts[i])}
        closes == {j \in 1..Len(ts) : HasCloseBrace(ts[j])}
    IN  IF opens = {} \/ closes = {} THEN Failed
        ELSE LET i == Min(opens)
                 j == Max(closes)
             IN  IF i < j \/ (i = j /\ ts[i].k = "obj")
                 THEN Ok(SubSeq(ts, i, j))
                 ELSE Failed

\* a response of the text model: the call raised, or it returned a text
Raised     == [raised |-> TRUE, text |-> <<>>]
Reply(ts)  == [raised |-> FALSE, text |-> ts]

(***************************************************************************)
(* get_word_definitions, lines 66-131.                                     *)
(* A Python dict is a sequence of [key, val] entries in insertion order.   *)
(* Definition strings are TLA+ strings; PyNone stands for a JSON value     *)
(* that is no string (null, a number), on which .strip() raises.           *)
(***************************************************************************)
PyNone          == "<None>"
NoDefinition    == "No definition available"
BlankText       == "  "
PaddedText      == " a stronghold with thick walls "
PlainText       == "a large creature that breathes fire"

\* str.strip() on the strings of the model
Strip(s) ==
    CASE s = BlankText  -> ""
      [] s = PaddedText -> "a stronghold with thick walls"
      [] OTHER          -> s

\* f"Definition not available due to error: {str(e)}" for the exceptions
\* the try block of lines 85-127 can raise
ErrorDefinition(e) ==
    CASE e = "model" ->
           "Definition not available due to error: 429 quota exceeded"
      [] e = "group" ->
           "Definition not available due to error: 'NoneType' object has no attribute 'group'"
      [] e = "json" ->
           "Definition not available due to error: Expecting property name enclosed in double quotes"
      [] e = "strip" ->
           "Definition not available due to error: 'NoneType' object has no attribute 'strip'"

ErrorDefinitions == {ErrorDefinition(e) : e \in {"model", "group", "json", "strip"}}

Entry(k, v) == [key |-> k, val |-> v]
Keys(d)     == {d[i].key : i \in 1..Len(d)}
Get(d, k)   == d[CHOOSE i \in 1..Len(d) : d[i].key = k].val

\* a mutant of the store: the key is the lowercased word
PutLower(d, k, v) ==
    IF Lower(k) \in Keys(d)
    THEN [i \in 1..Len(d) |-> IF d[i].key = Lower(k) THEN Entry(Lower(k), v) ELSE d[i]]
    ELSE Append(d, Entry(Lower(k), v))

\* final_definitions[word] = v
Put(d, k, v) ==
    IF k \in Keys(d)
    THEN [i \in 1..Len(d) |-> IF d[i].key = k THEN Entry(k, v) ELSE d[i]]
    ELSE Append(d, Entry(k, v))

\* lines 87-99: from the response to the parsed definitions
ParseDefinitions(resp) ==
    IF resp.raised THEN [ok |-> FALSE, v |-> "model"]
    ELSE
    LET ts == resp.text
        unfenced ==
            IF \E i \in 1..Len(ts) : ts[i].k = "fence_json"
            THEN SearchJsonFence(ts)
            ELSE IF \E i \in 1..Len(ts) : IsFence(ts[i])
            THEN SearchFence(ts)
            ELSE Ok(ts)
    IN  IF ~unfenced.ok THEN [ok |-> FALSE, v |-> "group"]
        ELSE LET braces == SearchBraces(unfenced.v) IN
             IF ~braces.ok THEN [ok |-> FALSE, v |-> "group"]
             ELSE LET loaded == JsonLoads(braces.v) IN
                  IF ~loaded.ok THEN [ok |-> FALSE, v |-> "json"]
                  ELSE loaded

\* line 106: the first key equal to the word, ignoring case
MatchingKey(definitions, word) ==
    LET hits == {i \in 1..Len(definitions) :
                    Lower(definitions[i].key) = Lower(word)}
    IN  IF hits = {} THEN <<>> ELSE definitions[Min(hits)].key

\* lines 117-125: the single-word retry; answer is the model's response
RetryDefinition(answer) ==
    IF answer.raised THEN NoDefinition
    ELSE IF Strip(answer.text) # "" THEN Strip(answer.text)
    ELSE NoDefinition

\* the calls of model.generate_content: line 86 and line 118
BatchCall       == [kind |-> "batch", word |-> <<>>]
RetryCall(word) == [kind |-> "retry", word |-> word]

\* a mutant of the loop: a word whose retry gave nothing is asked again
RECURSIVE DefineWordsRetryTwice(_, _, _, _)
DefineWordsRetryTwice(words, definitions, retry, acc) ==
    IF words = <<>> THEN acc
    ELSE
    LET word == Head(words)
        matching_key == MatchingKey(definitions, word)
    IN  IF matching_key # <<>> /\ Get(definitions, matching_key) = PyNone
        THEN [acc EXCEPT !.raised = TRUE]
        ELSE IF matching_key # <<>>
                /\ Strip(Get(definitions, matching_key)) # ""
        THEN DefineWordsRetryTwice(Tail(words), definitions, retry,
                 [acc EXCEPT !.defs =
                     Put(@, word, Get(definitions, matching_key))])
        ELSE DefineWordsRetryTwice(Tail(words), definitions, retry,
                 [acc EXCEPT !.defs = Put(@, word, RetryDefinition(retry[word])),
                             !.calls =
                                 IF RetryDefinition(retry[word]) = NoDefinition
                                 THEN Append(Append(@, RetryCall(word)),
                                             RetryCall(word))
                                 ELSE Append(@, RetryCall(word))])

\* lines 103-125: the loop over the words.  acc.defs is final_definitions,
\* acc.calls the model calls made so far; a value that is no string stops
\* the loop with an exception
RECURSIVE DefineWords(_, _, _, _)
DefineWords(words, definitions, retry, acc) ==
    IF words = <<>> THEN acc
    ELSE
    LET word == Head(words)
        matching_key == MatchingKey(definitions, word)
    IN  IF matching_key # <<>> /\ Get(definitions, matching_key) = PyNone
        THEN [acc EXCEPT !.raised = TRUE]
        ELSE IF matching_key # <<>>
                /\ Strip(Get(definitions, matching_key)) # ""
        THEN DefineWords(Tail(words), definitions, retry,
                 [acc EXCEPT !.defs =
                     Put(@, word, Get(definitions, matching_key))])
        ELSE DefineWords(Tail(words), definitions, retry,
                 [acc EXCEPT !.defs = Put(@, word, RetryDefinition(retry[word])),
                             !.calls = Append(@, RetryCall(word))])

\* get_word_definitions(words) when the model answers the batched prompt
\* with o.batch and the single-word prompt for w with o.retry[w].
\* Returns the mapping and the model calls made, in order.
get_word_definitions(words, o) ==
    LET parsed == ParseDefinitions(o.batch)
        all(e) == [i \in 1..Len(words) |-> Entry(words[i], ErrorDefinition(e))]
    IN  IF ~parsed.ok
        THEN [defs |-> all(parsed.v), calls |-> <<BatchCall>>]
        ELSE LET r == DefineWords(words, parsed.v, o.retry,
                          [raised |-> FALSE, defs |-> <<>>, calls |-> <<BatchCall>>])
             IN  IF r.raised
                 THEN [defs |-> all("strip"), calls |-> r.calls]
                 ELSE [defs |-> r.defs, calls |-> r.calls]

\* line 174: the entries kept
Surfaced(e) == e.val # "" /\ e.val # NoDefinition

\* extract_terminology(text), lines 134-175, when the model answers the
\* prompts about the selected words as the oracle o says
extract_terminology(t, o) ==
    LET words == selected_words(t) IN
    IF words # <<>>
    THEN LET r == get_word_definitions(words, o)
         IN  [terms |-> SelectSeq(r.defs, Surfaced), calls |-> r.calls]
    ELSE [terms |-> <<>>, calls |-> <<>>]

(***************************************************************************)
(* SpecEnrich: extract_terminology on a bounded set of chapter texts, for  *)
(* a bounded set of behaviours of the text model (the oracle).             *)
(***************************************************************************)
\* "The sword fell."  (no candidate)
TextNoCandidate ==
    <<84,104,101,32,115,119,111,114,100,32,102,101,108,108,46>>
\* "A dragon slept."  (one candidate)
TextOneCandidate ==
    <<65,32,100,114,97,103,111,110,32,115,108,101,112,116,46>>
\* "Dragon and castle and DRAGON."  (two candidates, one capitalised)
TextTwoCandidates ==
    <<68,114,97,103,111,110,32,97,110,100,32,99,97,115,116,108,101,32,97,
      110,100,32,68,82,65,71,79,78,46>>
\* "Mysterious ancient forest whispered dragon castle."  (six candidates)
TextSixCandidates ==
    <<77,121,115,116,101,114,105,111,117,115,32,97,110,99,105,101,110,116,
      32,102,111,114,101,115,116,32,119,104,105,115,112,101,114,101,100,32,
      100,114,97,103,111,110,32,99,97,115,116,108,101,46>>

EnrichTexts ==
    {TextNoCandidate, TextOneCandidate, TextTwoCandidates, TextSixCandidates}

\* what the batched answer holds for one word: no key, or a key with a value
Missing    == "<missing>"
ValueKinds == {"", BlankText, PyNone, PaddedText, NoDefinition}
EntryKinds == {Missing} \cup ValueKinds

\* the functions on 1..n that are constant but for at most one index
NearUniform(n, kinds) ==
    {[i \in 1..n |-> IF i = d THEN kd ELSE kb] :
        kb \in kinds, d \in 0..n, kd \in kinds}

\* the JSON object the batched answer holds: the words as lowercase keys,
\* each with its kind of value
RECURSIVE DictOf(_, _, _)
DictOf(words, kinds, i) ==
    IF i > Len(words) THEN <<>>
    ELSE (IF kinds[i] = Missing THEN <<>>
          ELSE <<Entry(Lower(words[i]), kinds[i])>>)
         \o DictOf(words, kinds, i + 1)

Dicts(words) ==
    {DictOf(words, kinds, 1) : kinds \in NearUniform(Len(words), EntryKinds)}

AllDefined(words) == DictOf(words, [i \in 1..Len(words) |-> PlainText], 1)

\* the ways a text wraps the JSON object d, and the texts that hold none
Wrapped(d) ==
    { <<ObjTok(d)>>,
      <<Tok("prose"), Tok("fence_json"), ObjTok(d), Tok("fence"), Tok("prose")>>,
      <<Tok("fence"), ObjTok(d), Tok("fence")>>,
      <<Tok("prose"), ObjTok(d), Tok("prose")>>,
      <<Tok("fence_json"), ObjTok(d)>>,
      <<Tok("fence_json"), Tok("prose"), Tok("fence"), ObjTok(d)>>,
      <<ObjTok(d), Tok("prose"), ObjTok(d)>> }

Garbage ==
    { <<>>,
      <<Tok("prose")>>,
      <<ValTok>>,
      <<Tok("lbrace"), Tok("prose")>>,
      <<Tok("lbrace"), Tok("prose"), Tok("rbrace")>>,
      <<Tok("fence_json"), Tok("prose"), Tok("fence")>> }

BatchResponses(words) ==
    {Raised}
    \cup {Reply(ts) : ts \in Garbage}
    \cup {Reply(ts) : ts \in Wrapped(AllDefined(words))}
    \cup {Reply(<<ObjTok(d)>>) : d \in Dicts(words)}

\* the answer to a single-word prompt: the call raised, or a text
RetryRaised   == [raised |-> TRUE, text |-> ""]
RetryReply(s) == [raised |-> FALSE, text |-> s]
RetryAnswers  ==
    {RetryRaised}
    \cup {RetryReply(s) : s \in {"", PaddedText, NoDefinition}}

RetryFunctions(words) ==
    {[w \in Range(words) |-> f[CHOOSE i \in 1..Len(words) : words[i] = w]] :
        f \in NearUniform(Len(words), RetryAnswers)}

Oracles(words) ==
    [batch : BatchResponses(words), retry : RetryFunctions(words)]

InitEnrich ==
    /\ pc = "ready"
    /\ text \in EnrichTexts
    /\ oracle \in Oracles(selected_words(text))
    /\ selected = <<>>
    /\ glossary = NoValue
    /\ calls = <<>>
    /\ story = NoValue
    /\ cover = NoValue
    /\ last = NoValue
    /\ response = NoValue
    /\ extracted = NoValue
    /\ reqs = NoValue
    /\ tasks = NoValue
    /\ completed = NoValue

\* one call of extract_terminology(text)
Enrich ==
    /\ pc = "ready"
    /\ LET r == extract_terminology(text, oracle) IN
           /\ glossary' = r.terms
           /\ calls' = r.calls
    /\ selected' = selected_words(text)
    /\ pc' = "done"
    /\ UNCHANGED <<text, oracle, story, cover, last,
                 response, extracted, reqs, tasks, completed>>

NextEnrich == Enrich

SpecEnrich == InitEnrich /\ [][NextEnrich]_vars

\* the values that mark a failed lookup
FailureMarkers == {NoDefinition} \cup ErrorDefinitions

\* C4: the mapping returned by extract_terminology never holds a failure
\* marker as a value, whatever the batched call and the retries did.
\* Violated by the code: a failed batched call surfaces its error text.
C4_NoFailureMarkerSurfaced ==
    pc = "done" =>
        \A i \in 1..Len(glossary) : glossary[i].val \notin FailureMarkers

\* the batched answer gave a usable definition for the word
ObtainedFromBatch(word) ==
    LET parsed == ParseDefinitions(oracle.batch) IN
    /\ parsed.ok
    /\ \E i \in 1..Len(parsed.v) :
           /\ Lower(parsed.v[i].key) = Lower(word)
           /\ parsed.v[i].val # PyNone
           /\ Strip(parsed.v[i].val) # ""

\* C5: every candidate word not obtained from the batched request (key
\* missing, value empty, or the batch failing as a whole) is retried alone,
\* and a retry that returns non-empty text puts the word in the mapping
\* with that text.  Violated by the code: a batch that fails as a whole is
\* never retried.
C5_RetryForEveryUnresolvedWord ==
    pc = "done" =>
        \A k \in 1..Len(selected) :
            LET word == selected[k] IN
            ~ObtainedFromBatch(word) =>
                /\ \E c \in 1..Len(calls) : calls[c] = RetryCall(word)
                /\ (~oracle.retry[word].raised
                    /\ Strip(oracle.retry[word].text) # "")
                   => /\ word \in Keys(glossary)
                      /\ Get(glossary, word) = Strip(oracle.retry[word].text)

(***************************************************************************)
(* Stories and chapters.  A Python dict with string keys is a function on  *)
(* a set of strings (a record whose fields may be missing).  content is a  *)
(* character sequence, the other strings are TLA+ strings.                 *)
(***************************************************************************)
HasKey(d, k)    == k \in DOMAIN d
SetKey(d, k, v) == [x \in DOMAIN d \cup {k} |-> IF x = k THEN v ELSE d[x]]
Drop(d, k)      == [x \in DOMAIN d \ {k} |-> d[x]]

\* Python list subscripts: 0-based, a negative index counts from the end
PyValid(s, i)  == -Len(s) <= i /\ i < Len(s)
PyPos(s, i)    == IF i >= 0 THEN i + 1 ELSE Len(s) + i + 1
PyGet(s, i)    == s[PyPos(s, i)]
PySet(s, i, v) == [s EXCEPT ![PyPos(s, i)] = v]

\* "Story generation failed. Please try again."
StoryFailedText ==
    <<83,116,111,114,121,32,103,101,110,101,114,97,116,105,111,110,32,102,
      97,105,108,101,100,46,32,80,108,101,97,115,101,32,116,114,121,32,97,
      103,97,105,110,46>>
\* "Failed to regenerate chapter. Please try again."
RegenerateFailedText ==
    <<70,97,105,108,101,100,32,116,111,32,114,101,103,101,110,101,114,97,
      116,101,32,99,104,97,112,116,101,114,46,32,80,108,101,97,115,101,32,
      116,114,121,32,97,103,97,105,110,46>>
\* "Failed to generate new content. Please try again."
ContinueFailedText ==
    <<70,97,105,108,101,100,32,116,111,32,103,101,110,101,114,97,116,101,
      32,110,101,119,32,99,111,110,116,101,110,116,46,32,80,108,101,97,
      115,101,32,116,114,121,32,97,103,97,105,110,46>>

BlankPagePrompt == "A blank page with some text"

(***************************************************************************)
(* The fallback ladder of lines 214-238 (and 295-312, 363-382):            *)
(* "parsed" with the value, "default" when no strategy found any JSON, or  *)
(* "raised" when a strategy found a span that json.loads rejects (the      *)
(* JSONDecodeError then leaves the handler of the first one).              *)
(***************************************************************************)
Ladder(ts) ==
    LET direct == JsonLoads(ts) IN
    IF direct.ok THEN [status |-> "parsed", v |-> direct.v]
    ELSE
    LET fenced == SearchJsonFence(ts) IN
    IF fenced.ok
    THEN LET inner == JsonLoads(fenced.v) IN
         IF inner.ok THEN [status |-> "parsed", v |-> inner.v]
         ELSE [status |-> "raised", v |-> NoValue]
    ELSE
    LET braces == SearchBraces(ts) IN
    IF braces.ok
    THEN LET inner == JsonLoads(braces.v) IN
         IF inner.ok THEN [status |-> "parsed", v |-> inner.v]
         ELSE [status |-> "raised", v |-> NoValue]
    ELSE [status |-> "default", v |-> NoValue]

(***************************************************************************)
(* How the text model answers the definition prompts during one request:   *)
(* "defined" (the batched answer defines every word), "down" (every call   *)
(* raises), "retried" (the batched answer is {} and every single-word      *)
(* prompt is answered).                                                    *)
(***************************************************************************)
DefPolicies == {"defined", "down", "retried"}

OracleFor(policy, words) ==
    [batch |-> CASE policy = "defined" -> Reply(<<ObjTok(AllDefined(words))>>)
                 [] policy = "down"    -> Raised
                 [] policy = "retried" -> Reply(<<ObjTok(<<>>)>>),
     retry |-> [w \in Range(words) |->
                   IF policy = "retried" THEN RetryReply(PaddedText)
                   ELSE RetryRaised]]

\* the chapter contents of the model: the text the model writes and the
\* three placeholder texts of the code
Contents ==
    {TextOneCandidate, StoryFailedText, RegenerateFailedText, ContinueFailedText}

\* extract_terminology(chapter['content']) under a policy, computed once
\* for every content and policy
TerminologyOf ==
    [content \in Contents, policy \in DefPolicies |->
        extract_terminology(content,
            OracleFor(policy, selected_words(content))).terms]

Terminology(content, policy) == TerminologyOf[content, policy]

\* lines 241-242 (315, 385-386): the loop that adds terminology; a chapter
\* that is no dict or has no content raises
RECURSIVE AddTerminology(_, _, _)
AddTerminology(chapters, policy, i) ==
    IF i > Len(chapters) THEN Ok(chapters)
    ELSE IF ~HasKey(chapters[i], "content") THEN Failed
    ELSE AddTerminology(
             [chapters EXCEPT ![i] =
                 SetKey(@, "terminology", Terminology(@.content, policy))],
             policy, i + 1)

(***************************************************************************)
(* generate_story, lines 178-259.                                          *)
(***************************************************************************)
\* f"{genre.title()} Story"
GenreTitle(genre) ==
    CASE genre = "fantasy" -> "Fantasy Story"
      [] genre = "mystery" -> "Mystery Story"

\* the record of lines 227-238 and 248-259
DefaultStory(genre) ==
    [title   |-> GenreTitle(genre),
     author  |-> "AI Author",
     moral   |-> "Could not generate a moral for the story",
     chapters |-> << [chapter_number |-> 1,
                      chapter_title  |-> "Chapter 1",
                      content        |-> StoryFailedText,
                      image_prompt   |-> BlankPagePrompt,
                      terminology    |-> <<>>] >>]

generate_story(genre, resp, policy) ==
    IF resp.raised THEN DefaultStory(genre)
    ELSE
    LET l == Ladder(resp.text) IN
    IF l.status = "raised" THEN DefaultStory(genre)
    ELSE
    LET story_data == IF l.status = "parsed" THEN l.v ELSE DefaultStory(genre)
    IN  IF ~HasKey(story_data, "chapters") THEN DefaultStory(genre)
        ELSE LET e == AddTerminology(story_data.chapters, policy, 1) IN
             IF ~e.ok THEN DefaultStory(genre)
             ELSE SetKey(story_data, "chapters", e.v)

(***************************************************************************)
(* Images, lines 26-63.  A URL is the record of its prompt path segment    *)
(* and its width and height parameters.                                    *)
(***************************************************************************)
\* urllib.parse.quote on the prompts of the model
Quote(prompt) ==
    CASE prompt = "a dragon over a castle" -> "a%20dragon%20over%20a%20castle"
      [] prompt = "a knight at dawn" -> "a%20knight%20at%20dawn"
      [] prompt = "a sword in a lake" -> "a%20sword%20in%20a%20lake"
      [] prompt = "a potion on a shelf" -> "a%20potion%20on%20a%20shelf"
      [] prompt = "A blank page with some text" ->
           "A%20blank%20page%20with%20some%20text"
      [] prompt = "A professional book cover with a title on it, 'The Sleeping Dragon', fantasy art" ->
           "A%20professional%20book%20cover%20with%20a%20title%20on%20it%2C%20%27The%20Sleeping%20Dragon%27%2C%20fantasy%20art"
      [] prompt = "A professional book cover with a title on it, 'Fantasy Story', fantasy art" ->
           "A%20professional%20book%20cover%20with%20a%20title%20on%20it%2C%20%27Fantasy%20Story%27%2C%20fantasy%20art"
      [] prompt = "A professional book cover with a title on it, 'Mystery Story', fantasy art" ->
           "A%20professional%20book%20cover%20with%20a%20title%20on%20it%2C%20%27Mystery%20Story%27%2C%20fantasy%20art"

Url(path, width, height) == [prompt |-> path, width |-> width, height |-> height]

\* lines 34 and 57, and line 58
fallback_url   == Url("scenic%20view", 800, 600)
cover_fallback == Url("book%20cover", 400, 550)

\* generate_image(prompt, width, height): quote raises on a prompt that is
\* no string, and the handler returns the fallback
generate_image(prompt, width, height) ==
    IF prompt = PyNone THEN fallback_url
    ELSE Url(Quote(prompt), width, height)

\* line 40
CoverPrompt(title) ==
    CASE title = "The Sleeping Dragon" ->
           "A professional book cover with a title on it, 'The Sleeping Dragon', fantasy art"
      [] title = "Fantasy Story" ->
           "A professional book cover with a title on it, 'Fantasy Story', fantasy art"
      [] title = "Mystery Story" ->
           "A professional book cover with a title on it, 'Mystery Story', fantasy art"

\* a mutant of the handler: the cover gets the chapters' fallback
FallbackAllOneUrl(story_data) ==
    [story |-> SetKey(story_data, "chapters",
                   [i \in 1..Len(story_data.chapters) |->
                       SetKey(story_data.chapters[i], "image", fallback_url)]),
     cover |-> fallback_url,
     fell_back |-> TRUE]

\* lines 55-63: the handler of any exception of the try block
FallbackAll(story_data) ==
    [story |-> SetKey(story_data, "chapters",
                   [i \in 1..Len(story_data.chapters) |->
                       SetKey(story_data.chapters[i], "image", fallback_url)]),
     cover |-> cover_fallback,
     fell_back |-> TRUE]

\* generate_all_images_concurrent(story_data).  The try block raises when
\* the story has no title (line 40), when executor.submit raises (a pool
\* that was shut down or cannot start a thread) or when a chapter has no
\* image_prompt (line 43); the tasks themselves never raise.
generate_all_images_concurrent(story_data, poolDown) ==
    IF \/ ~HasKey(story_data, "title")
       \/ poolDown
       \/ \E i \in 1..Len(story_data.chapters) :
              ~HasKey(story_data.chapters[i], "image_prompt")
    THEN FallbackAll(story_data)
    ELSE [story |-> SetKey(story_data, "chapters",
                        [i \in 1..Len(story_data.chapters) |->
                            SetKey(story_data.chapters[i], "image",
                                generate_image(
                                    story_data.chapters[i].image_prompt,
                                    800, 600))]),
          cover |-> generate_image(CoverPrompt(story_data.title), 400, 550),
          fell_back |-> FALSE]

(***************************************************************************)
(* regenerate_chapter, lines 261-333.                                      *)
(***************************************************************************)
\* the tuple ("Invalid chapter number", 400) of line 265
InvalidChapter == [message |-> "Invalid chapter number", code |-> 400]

\* a mutant of the range test: the lower bound is not tested, so chapter
\* number 0 reaches the subscript -1
InRangeNoLowerBound(chapter_index, n) == chapter_index < n

\* line 264
InRange(chapter_index, n) == 0 <= chapter_index /\ chapter_index < n

\* a mutant of the placeholder chapter: always numbered 1
DefaultChapterNumberedOne(chapter_number) ==
    [chapter_number |-> 1,
     chapter_title  |-> "Regenerated Chapter",
     content        |-> RegenerateFailedText,
     image_prompt   |-> BlankPagePrompt,
     terminology    |-> <<>>]

\* the record of lines 306-312 and 327-333
DefaultChapter(chapter_number) ==
    [chapter_number |-> chapter_number,
     chapter_title  |-> "Regenerated Chapter",
     content        |-> RegenerateFailedText,
     image_prompt   |-> BlankPagePrompt,
     terminology    |-> <<>>]

\* An outcome of a call that may raise: the value returned and the story
\* object as the call left it.
Returned(story_data, result) ==
    [raised |-> FALSE, story |-> story_data, result |-> result]
Escaped(story_data) ==
    [raised |-> TRUE, story |-> story_data, result |-> NoValue]

\* lines 293-333: the try block and its handler
RegenerateBody(story_data, chapter_number, resp, policy) ==
    LET chapter_index == chapter_number - 1
        default == Returned(story_data, DefaultChapter(chapter_number))
    IN
    IF resp.raised THEN default
    ELSE
    LET l == Ladder(resp.text) IN
    IF l.status = "raised" THEN default
    ELSE
    LET parsed == IF l.status = "parsed" THEN l.v
                  ELSE DefaultChapter(chapter_number)
    IN
    IF ~HasKey(parsed, "content") THEN default
    ELSE
    LET enriched == SetKey(parsed, "terminology",
                           Terminology(parsed.content, policy))
    IN
    \* line 318
    IF ~PyValid(story_data.chapters, chapter_index) THEN default
    ELSE IF ~HasKey(enriched, "image_prompt")
    \* line 321 raises after the chapter was stored
    THEN Returned(SetKey(story_data, "chapters",
                      PySet(story_data.chapters, chapter_index, enriched)),
                  DefaultChapter(chapter_number))
    ELSE LET new_chapter == SetKey(enriched, "image",
                                generate_image(enriched.image_prompt, 800, 600))
         IN  Returned(SetKey(story_data, "chapters",
                          PySet(story_data.chapters, chapter_index, new_chapter)),
                      new_chapter)

regenerate_chapter(story_data, chapter_number, resp, policy) ==
    LET chapter_index == chapter_number - 1 IN
    IF ~HasKey(story_data, "chapters") THEN Escaped(story_data)
    ELSE IF ~InRange(chapter_index, Len(story_data.chapters))
    THEN Returned(story_data, InvalidChapter)
    \* line 270
    ELSE IF chapter_index > 0
            /\ (\/ ~PyValid(story_data.chapters, chapter_index - 1)
                \/ ~HasKey(PyGet(story_data.chapters, chapter_index - 1),
                           "content"))
    THEN Escaped(story_data)
    \* line 273
    ELSE IF ~HasKey(story_data, "title") THEN Escaped(story_data)
    ELSE RegenerateBody(story_data, chapter_number, resp, policy)

(***************************************************************************)
(* continue_story, lines 335-397.                                          *)
(***************************************************************************)
\* the chapter of lines 375-381 and 391-397
DefaultNewChapter(previous_story) ==
    [chapter_number |-> Len(previous_story.chapters) + 1,
     chapter_title  |-> "New Chapter",
     content        |-> ContinueFailedText,
     image_prompt   |-> BlankPagePrompt,
     terminology    |-> <<>>]

\* lines 361-397: the try block and its handler; the value is the list of
\* new chapters
ContinueBody(previous_story, resp, policy) ==
    LET default == << DefaultNewChapter(previous_story) >> IN
    IF resp.raised THEN default
    ELSE
    LET l == Ladder(resp.text) IN
    IF l.status = "raised" THEN default
    ELSE
    LET new_chapters == IF l.status = "parsed" THEN l.v
                        ELSE [chapters |-> default]
    IN  IF ~HasKey(new_chapters, "chapters") THEN default
        ELSE LET e == AddTerminology(new_chapters.chapters, policy, 1) IN
             IF ~e.ok THEN default ELSE e.v

\* a mutant of continue_story: the new chapters are also appended to the
\* story that was passed in
ContinueStoryInPlace(previous_story, resp, policy) ==
    IF \/ ~HasKey(previous_story, "title")
       \/ ~HasKey(previous_story, "chapters")
    THEN Escaped(previous_story)
    ELSE IF \/ previous_story.chapters = <<>>
            \/ ~HasKey(PyGet(previous_story.chapters, -1), "content")
    THEN Escaped(previous_story)
    ELSE Returned(
             SetKey(previous_story, "chapters",
                 previous_story.chapters
                     \o ContinueBody(previous_story, resp, policy)),
             ContinueBody(previous_story, resp, policy))

continue_story(previous_story, resp, policy) ==
    \* lines 339-340 and 351, outside the try block
    IF \/ ~HasKey(previous_story, "title")
       \/ ~HasKey(previous_story, "chapters")
    THEN Escaped(previous_story)
    ELSE IF \/ previous_story.chapters = <<>>
            \/ ~HasKey(PyGet(previous_story.chapters, -1), "content")
    THEN Escaped(previous_story)
    ELSE Returned(previous_story, ContinueBody(previous_story, resp, policy))

(***************************************************************************)
(* Spec: the three operations as the caller sees them.  The caller holds   *)
(* the story between requests: it takes the story and the cover of a       *)
(* Create response, the story of a Regenerate response, and appends the    *)
(* chapters of a Continue response.  A run is the life of one story: it    *)
(* starts with Create.                                                     *)
(***************************************************************************)
MaxChapters == 3    \* chapters in a Create answer of the text model
MaxStoryLen == 4    \* chapters the caller's story grows to
MaxOps      == 2    \* requests in one run

ModelTitle   == "The Sleeping Dragon"
DragonPrompt == "a dragon over a castle"

\* a chapter as the text model writes it
ModelChapter(n, title) ==
    [chapter_number |-> n,
     chapter_title  |-> title,
     content        |-> TextOneCandidate,
     image_prompt   |-> DragonPrompt,
     terminology    |-> <<>>]

\* a story of n chapters numbered from first
ModelStory(n, first) ==
    [title    |-> ModelTitle,
     author   |-> "AI Author",
     moral    |-> "Courage grows in the dark",
     chapters |-> [i \in 1..n |-> ModelChapter(first + i - 1, "The cave")]]

ChapterFields ==
    {"chapter_number", "chapter_title", "content", "image_prompt", "terminology"}

\* chapters of the wrong shape: a field missing, a prompt that is no
\* string, a value that is no object
Misshapen(chapter) ==
    {Drop(chapter, f) : f \in ChapterFields}
    \cup {SetKey(chapter, "image_prompt", PyNone), NonObject}

StoryPayloads ==
    {ModelStory(n, 1) : n \in 0..MaxChapters}
    \cup {ModelStory(n, 0) : n \in 1..MaxChapters}
    \cup {Drop(ModelStory(2, 1), f) : f \in {"title", "author", "moral", "chapters"}}
    \cup {SetKey(ModelStory(2, 1), "chapters", <<ModelChapter(1, "The cave"), c>>) :
             c \in Misshapen(ModelChapter(2, "The cave"))}

CreateReplies ==
    {Raised}
    \cup {Reply(ts) : ts \in Garbage}
    \cup {Reply(ts) : ts \in Wrapped(ModelStory(MaxChapters, 1))}
    \cup {Reply(<<ObjTok(p)>>) : p \in StoryPayloads}

\* fewer wrappings for the two other operations
WrappedFew(d) ==
    { <<ObjTok(d)>>,
      <<Tok("prose"), Tok("fence_json"), ObjTok(d), Tok("fence"), Tok("prose")>>,
      <<Tok("fence_json"), Tok("prose"), Tok("fence"), ObjTok(d)>> }

GarbageFew ==
    { <<Tok("prose")>>, <<ValTok>>, <<Tok("lbrace"), Tok("prose"), Tok("rbrace")>> }

RegenerateReplies(n) ==
    {Raised}
    \cup {Reply(ts) : ts \in GarbageFew}
    \cup {Reply(ts) : ts \in WrappedFew(ModelChapter(n, "A new dawn"))}
    \cup {Reply(<<ObjTok(ModelChapter(n + 1, "A new dawn"))>>)}
    \cup {Reply(<<ObjTok(c)>>) : c \in Misshapen(ModelChapter(n, "A new dawn")) \ {NonObject}}

\* k new chapters numbered from first
NewChapters(k, first) ==
    [chapters |-> [i \in 1..k |-> ModelChapter(first + i - 1, "Onward")]]

ContinueReplies(len) ==
    {Raised}
    \cup {Reply(ts) : ts \in GarbageFew}
    \cup {Reply(ts) : ts \in WrappedFew(NewChapters(2, len + 1))}
    \cup {Reply(<<ObjTok(NewChapters(k, len + 1))>>) : k \in 0..1}
    \cup {Reply(<<ObjTok(NewChapters(2, 1))>>)}
    \cup {Reply(<<ObjTok(Drop(NewChapters(1, len + 1), "chapters"))>>)}
    \cup {Reply(<<ObjTok([chapters |-> <<c>>])>>) :
             c \in {Drop(ModelChapter(len + 1, "Onward"), f) :
                       f \in {"content", "image_prompt", "chapter_number"}}}

\* the environment of one request: the answer to the story prompt, the
\* answers to the definition prompts, and whether executor.submit raises
Env(resp, policy, poolDown) ==
    [resp |-> resp, policy |-> policy, poolDown |-> poolDown]

Envs(replies, good) ==
    {Env(r, "defined", FALSE) : r \in replies}
    \cup {Env(r, p, FALSE) : r \in {good, Reply(<<Tok("prose")>>)}, p \in DefPolicies}
    \cup {Env(good, "defined", TRUE)}

\* lines 419-424
num_chapters(story_length) ==
    CASE story_length = "short"  -> 3
      [] story_length = "medium" -> 5
      [] story_length = "long"   -> 7
      [] story_length = "grand"  -> 10
      [] OTHER                   -> 3

CreateRequests ==
    { [genre |-> "fantasy", storyLength |-> "short"],
      [genre |-> "mystery", storyLength |-> "medium"] }

NoStory == [absent |-> TRUE]

Init ==
    /\ pc = "serving"
    /\ text = <<>>
    /\ selected = <<>>
    /\ oracle = NoValue
    /\ glossary = NoValue
    /\ calls = <<>>
    /\ story = NoStory
    /\ cover = NoValue
    /\ last = [seq |-> 0, op |-> "none", request |-> NoValue, env |-> NoValue,
               status |-> 0, result |-> NoValue, fell_back |-> FALSE]
    /\ response = NoValue
    /\ extracted = NoValue
    /\ reqs = NoValue
    /\ tasks = NoValue
    /\ completed = NoValue

Response(op, request, env, status, result, fell_back) ==
    [seq |-> last.seq + 1, op |-> op, request |-> request, env |-> env,
     status |-> status, result |-> result, fell_back |-> fell_back]

\* the body of a 500 response
ErrorBody(message) == [error |-> message]

\* POST /generate, lines 404-441
Create ==
    /\ last.seq < MaxOps
    /\ story = NoStory
    /\ \E request \in CreateRequests :
       \E env \in Envs(CreateReplies, Reply(<<ObjTok(ModelStory(MaxChapters, 1))>>)) :
       \E r \in {generate_all_images_concurrent(
                      generate_story(request.genre, env.resp, env.policy),
                      env.poolDown)} :
           /\ story' = r.story
           /\ cover' = r.cover
           /\ last' = Response("create", request, env, 200,
                          [story |-> r.story, cover_image |-> r.cover],
                          r.fell_back)
    /\ UNCHANGED <<pc, text, selected, oracle, glossary, calls,
                 response, extracted, reqs, tasks, completed>>

\* POST /regenerate, lines 443-464
Regenerate ==
    /\ last.seq < MaxOps
    /\ story # NoStory
    /\ \E chapter_number \in -1..(Len(story.chapters) + 2) :
       \E env \in Envs(RegenerateReplies(chapter_number),
                       Reply(<<ObjTok(ModelChapter(chapter_number, "A new dawn"))>>)) :
       \E out \in {regenerate_chapter(story, chapter_number, env.resp, env.policy)} :
           LET request == [chapter_number |-> chapter_number]
           IN  IF out.raised
               THEN /\ story' = story
                    /\ last' = Response("regenerate", request, env, 500,
                                   ErrorBody("Failed to regenerate chapter"), FALSE)
               ELSE /\ story' = out.story
                    /\ last' = Response("regenerate", request, env, 200,
                                   [story |-> out.story, new_chapter |-> out.result],
                                   FALSE)
    /\ UNCHANGED <<pc, text, selected, oracle, glossary, calls, cover,
                 response, extracted, reqs, tasks, completed>>

\* lines 481-487: the images of the new chapters; submitting raises when a
\* chapter has no image_prompt or the pool refuses the task
ContinueImages(new_chapters, poolDown) ==
    IF \/ poolDown /\ new_chapters # <<>>
       \/ \E i \in 1..Len(new_chapters) : ~HasKey(new_chapters[i], "image_prompt")
    THEN Failed
    ELSE Ok([i \in 1..Len(new_chapters) |->
                SetKey(new_chapters[i], "image",
                    generate_image(new_chapters[i].image_prompt, 800, 600))])

\* POST /continue, lines 466-495
Continue ==
    /\ last.seq < MaxOps
    /\ story # NoStory
    /\ \E num_new_chapters \in {2} :
       \E env \in Envs(ContinueReplies(Len(story.chapters)),
                       Reply(<<ObjTok(NewChapters(2, Len(story.chapters) + 1))>>)) :
       \E out \in {continue_story(story, env.resp, env.policy)} :
       \* an exception of continue_story or of the image submission
       \E images \in {IF out.raised THEN Failed
                      ELSE ContinueImages(out.result, env.poolDown)} :
           LET request == [num_new_chapters |-> num_new_chapters]
           IN  IF ~images.ok
               THEN /\ story' = story
                    /\ last' = Response("continue", request, env, 500,
                                   ErrorBody("Failed to continue story"), FALSE)
               ELSE /\ Len(story.chapters) + Len(images.v) <= MaxStoryLen
                    /\ story' = SetKey(out.story, "chapters",
                                     out.story.chapters \o images.v)
                    /\ last' = Response("continue", request, env, 200,
                                   [new_chapters |-> images.v], FALSE)
    /\ UNCHANGED <<pc, text, selected, oracle, glossary, calls, cover,
                 response, extracted, reqs, tasks, completed>>

Next == Create \/ Regenerate \/ Continue

Spec == Init /\ [][Next]_vars

(***************************************************************************)
(* Claims about the three operations, checked under Spec.                  *)
(***************************************************************************)
StoryFields == {"title", "author", "moral", "chapters"}

ValidStory(s) ==
    /\ StoryFields \subseteq DOMAIN s
    /\ \A i \in 1..Len(s.chapters) : ChapterFields \subseteq DOMAIN s.chapters[i]

\* C1: for every raw answer of the text model, Create returns a story that
\* has title, author, moral and chapters, every chapter with its five
\* fields.  Violated by the code: a parsed object is returned as it is.
C1_CreateReturnsValidStory ==
    last.op = "create" => last.status = 200 /\ ValidStory(story)

OutOfRange(chapter_number, s) ==
    chapter_number < 1 \/ chapter_number > Len(s.chapters)

\* C2: Regenerate returns the out-of-range error iff the chapter number is
\* outside 1..len(chapters), and otherwise a chapter whose chapter_number
\* is the requested one.  Violated by the code: the parsed chapter keeps
\* the number the model wrote.
C2_RegenerateReturnsRequestedNumber ==
    last.op = "regenerate" =>
        /\ last.status = 200
        /\ IF OutOfRange(last.request.chapter_number, story)
           THEN last.result.new_chapter = InvalidChapter
           ELSE /\ last.result.new_chapter # InvalidChapter
                /\ HasKey(last.result.new_chapter, "chapter_number")
                /\ last.result.new_chapter.chapter_number
                       = last.request.chapter_number

\* C3: a Regenerate with a chapter number outside 1..len(chapters) gives
\* the caller the out-of-range error and leaves the story as supplied.
C3_OutOfRangeLeavesStory ==
    [][ ( /\ last'.seq = last.seq + 1
          /\ last'.op = "regenerate"
          /\ OutOfRange(last'.request.chapter_number, story) )
        => ( /\ story' = story
             /\ last'.status = 200
             /\ last'.result.story = story
             /\ last'.result.new_chapter = InvalidChapter ) ]_vars

\* Regenerate of chapter 5 on a story of 3 chapters answered by the error
C3_Witness ==
    /\ last.op = "regenerate"
    /\ last.request.chapter_number = 5
    /\ Len(story.chapters) = 3
    /\ last.status = 200
    /\ last.result.new_chapter = InvalidChapter

\* C7: when the try block of the fan-out fails, every chapter has the same
\* generic fallback URL and the cover has a fallback URL that differs from
\* it.
C7_BatchFallbackIsUniform ==
    (last.op = "create" /\ last.fell_back) =>
        /\ \A i \in 1..Len(story.chapters) :
               /\ HasKey(story.chapters[i], "image")
               /\ story.chapters[i].image = fallback_url
        /\ cover = cover_fallback
        /\ cover # fallback_url

\* a Create whose pool refused the tasks, on a story of several chapters
C7_Witness ==
    /\ last.op = "create"
    /\ last.fell_back
    /\ last.env.poolDown
    /\ Len(story.chapters) >= 2

\* C8: Create returns exactly the number of chapters of the storyLength
\* enum, numbered 1..N in order, for every answer of the text model.
\* Violated by the code: the number is only written into the prompt.
C8_CreateReturnsRequestedCount ==
    last.op = "create" =>
        /\ Len(story.chapters) = num_chapters(last.request.storyLength)
        /\ \A i \in 1..Len(story.chapters) :
               /\ HasKey(story.chapters[i], "chapter_number")
               /\ story.chapters[i].chapter_number = i

\* the caller was told of an error: a 500 response, or the error tuple in
\* place of the new chapter
ErrorReported ==
    \/ last.status = 500
    \/ last.op = "regenerate" /\ last.result.new_chapter = InvalidChapter

\* C9: the only condition under which an operation reports an error is an
\* out-of-range chapter number passed to Regenerate.  Violated by the
\* code: exceptions raised outside the try blocks reach the routes.
C9_OnlyOutOfRangeIsReported ==
    (last.op # "none" /\ ErrorReported) =>
        /\ last.op = "regenerate"
        /\ OutOfRange(last.request.chapter_number, story)

\* C10: after Create and any Regenerate and Continue calls the chapters of
\* the caller's story are numbered 1..N by position.  Violated by the
\* code: chapter numbers are the ones the model wrote.
C10_ChaptersNumberedByPosition ==
    story # NoStory =>
        \A i \in 1..Len(story.chapters) :
            /\ HasKey(story.chapters[i], "chapter_number")
            /\ story.chapters[i].chapter_number = i

(***************************************************************************)
(* SpecPool: requests that run at the same time and share the process-wide *)
(* executor of line 13.  A request is the thread of one route; it submits  *)
(* its image tasks one by one, then blocks on future.result() in the order *)
(* of submission.  The executor takes tasks from its queue in submission   *)
(* order while a worker is free, and the tasks finish in any order.        *)
(***************************************************************************)
\* ThreadPoolExecutor(max_workers=10)
max_workers == 10

Clients == {"A", "B"}

KnightPrompt == "a knight at dawn"
SwordPrompt  == "a sword in a lake"
PotionPrompt == "a potion on a shelf"

\* a chapter with the image prompt p
PoolChapter(n, p) == SetKey(ModelChapter(n, "The cave"), "image_prompt", p)

\* a chapter without image_prompt
NoPromptChapter(n) == Drop(ModelChapter(n, "The cave"), "image_prompt")

PoolStory(title, chapters) ==
    [title |-> title, author |-> "AI Author",
     moral |-> "Courage grows in the dark", chapters |-> chapters]

\* a request at its start: op is the route, story the story_data of
\* /generate, or the new chapters of /continue, or the new chapter of
\* /regenerate
Request(op, story_data) ==
    [op |-> op, story |-> story_data, pc |-> "submit", futures |-> <<>>,
     got |-> <<>>, cover |-> NoValue, status |-> 0, fell_back |-> FALSE]

RequestsA ==
    {Request("create", PoolStory(ModelTitle, chapters)) :
        chapters \in { <<PoolChapter(1, DragonPrompt), PoolChapter(2, KnightPrompt)>>,
                       <<PoolChapter(1, PyNone), PoolChapter(2, KnightPrompt)>>,
                       <<PoolChapter(1, DragonPrompt), NoPromptChapter(2)>> }}

RequestsB ==
    {Request("create", PoolStory("Mystery Story", <<PoolChapter(1, SwordPrompt)>>)),
     Request("continue", [chapters |-> <<PoolChapter(3, SwordPrompt),
                                         PoolChapter(4, PotionPrompt)>>]),
     Request("continue", [chapters |-> <<PoolChapter(3, SwordPrompt),
                                         NoPromptChapter(4)>>]),
     Request("regenerate", [chapters |-> <<PoolChapter(1, SwordPrompt)>>])}

InitPool ==
    /\ pc = "serving"
    /\ text = NoValue
    /\ selected = NoValue
    /\ oracle = NoValue
    /\ glossary = NoValue
    /\ calls = NoValue
    /\ story = NoValue
    /\ cover = NoValue
    /\ last = NoValue
    /\ response = NoValue
    /\ extracted = NoValue
    /\ \E a \in RequestsA, b \in RequestsB :
           reqs = [c \in Clients |-> IF c = "A" THEN a ELSE b]
    /\ tasks = <<>>
    /\ completed = <<>>

\* executor.submit(generate_image, prompt, width, height) by client c
Task(c, prompt, width, height) ==
    [owner |-> c, prompt |-> prompt, width |-> width, height |-> height,
     state |-> "pending", result |-> NoValue]

\* the number of tasks a request submits: the cover (lines 40-41) and one
\* task per chapter (lines 43, 482-483)
CoverTasks(r) == IF r.op = "create" THEN 1 ELSE 0
TasksOf(r)    == CoverTasks(r) + Len(r.story.chapters)

\* a mutant of the future a request waits on: the k-th task of the
\* executor, whoever submitted it
FutureByPosition(c, k) == k

\* cover_future and chapter_futures[k]: the k-th future client c holds
FutureOf(c, k) == reqs[c].futures[k]

\* the tasks of client c in the order in which they completed
CompletedOf(c) ==
    SelectSeq(completed, LAMBDA t : tasks[t].owner = c)

\* a mutant of the collection: results are taken as they complete
ResultAsCompleted(c, k) == tasks[CompletedOf(c)[k]].result

\* future.result() of the k-th future of client c (lines 46-47, 486-487)
Result(c, k) == tasks[FutureOf(c, k)].result

\* lines 40-43 and 482-483: client c submits its next task; a chapter
\* without image_prompt raises KeyError, which ends /generate in the
\* handler of lines 55-63 and /continue in the 500 response of line 490
Submit(c) ==
    LET r == reqs[c]
        k == Len(r.futures) + 1
        i == k - CoverTasks(r)
    IN  /\ r.pc = "submit"
        /\ r.op \in {"create", "continue"}
        /\ k <= TasksOf(r)
        /\ IF i = 0
           THEN /\ tasks' = Append(tasks,
                       Task(c, CoverPrompt(r.story.title), 400, 550))
                /\ reqs' = [reqs EXCEPT ![c].futures = Append(@, Len(tasks) + 1),
                                        ![c].pc = IF k = TasksOf(r)
                                                  THEN "collect" ELSE "submit"]
           ELSE IF HasKey(r.story.chapters[i], "image_prompt")
           THEN /\ tasks' = Append(tasks,
                       Task(c, r.story.chapters[i].image_prompt, 800, 600))
                /\ reqs' = [reqs EXCEPT ![c].futures = Append(@, Len(tasks) + 1),
                                        ![c].pc = IF k = TasksOf(r)
                                                  THEN "collect" ELSE "submit"]
           ELSE IF r.op = "create"
           THEN \E f \in {FallbackAll(r.story)} :
                /\ tasks' = tasks
                /\ reqs' = [reqs EXCEPT ![c].story = f.story,
                                        ![c].cover = f.cover,
                                        ![c].fell_back = f.fell_back,
                                        ![c].status = 200,
                                        ![c].pc = "returned"]
           ELSE /\ tasks' = tasks
                /\ reqs' = [reqs EXCEPT ![c].status = 500,
                                        ![c].pc = "returned"]
        /\ UNCHANGED <<pc, text, selected, oracle, glossary, calls, story, cover,
                       last, response, extracted, completed>>

\* the tasks a worker thread is executing
Running == {u \in 1..Len(tasks) : tasks[u].state = "running"}

\* a mutant of the pool: a thread for every task
IdleWorkerAlways == TRUE

\* the executor has a thread to give: fewer than max_workers are busy
IdleWorker == Cardinality(Running) < max_workers

\* a worker takes the oldest task of the queue
Start(t) ==
    /\ tasks[t].state = "pending"
    /\ \A u \in 1..(t - 1) : tasks[u].state # "pending"
    /\ IdleWorker
    /\ tasks' = [tasks EXCEPT ![t].state = "running"]
    /\ UNCHANGED <<pc, text, selected, oracle, glossary, calls, story, cover,
                   last, response, extracted, reqs, completed>>

\* the worker returns from generate_image and sets the future; the order of
\* completion is a history kept while pc = "serving"
Finish(t) ==
    /\ tasks[t].state = "running"
    /\ tasks' = [tasks EXCEPT
                    ![t].state = "done",
                    ![t].result = generate_image(tasks[t].prompt,
                                      tasks[t].width, tasks[t].height)]
    /\ completed' = IF pc = "serving" THEN Append(completed, t) ELSE completed
    /\ UNCHANGED <<pc, text, selected, oracle, glossary, calls, story, cover,
                   last, response, extracted, reqs>>

\* lines 46-47 and 486-487: client c blocks on its next future until the
\* task is done
Collect(c) ==
    LET r == reqs[c]
        k == Len(r.got) + 1
    IN  /\ r.pc = "collect"
        /\ k <= Len(r.futures)
        /\ tasks[FutureOf(c, k)].state = "done"
        /\ reqs' = [reqs EXCEPT ![c].got = Append(@, Result(c, k))]
        /\ UNCHANGED <<pc, text, selected, oracle, glossary, calls, story, cover,
                       last, response, extracted, tasks, completed>>

\* lines 50-53 and 486-489: zip(chapters, images), then the response
Return(c) ==
    LET r == reqs[c]
        n == CoverTasks(r)
    IN  /\ r.pc = "collect"
        /\ Len(r.got) = Len(r.futures)
        /\ reqs' = [reqs EXCEPT
               ![c].story = SetKey(r.story, "chapters",
                                [i \in 1..Len(r.story.chapters) |->
                                    SetKey(r.story.chapters[i], "image",
                                           r.got[n + i])]),
               ![c].cover = IF n = 1 THEN r.got[1] ELSE NoValue,
               ![c].status = 200,
               ![c].pc = "returned"]
        /\ UNCHANGED <<pc, text, selected, oracle, glossary, calls, story, cover,
                       last, response, extracted, tasks, completed>>

\* line 321: /regenerate calls generate_image in the thread of the request
Inline(c) ==
    LET r == reqs[c] IN
        /\ r.pc = "submit"
        /\ r.op = "regenerate"
        /\ reqs' = [reqs EXCEPT
               ![c].story = SetKey(r.story, "chapters",
                                << SetKey(r.story.chapters[1], "image",
                                       generate_image(
                                           r.story.chapters[1].image_prompt,
                                           800, 600)) >>),
               ![c].status = 200,
               ![c].pc = "returned"]
        /\ UNCHANGED <<pc, text, selected, oracle, glossary, calls, story, cover,
                       last, response, extracted, tasks, completed>>

NextPool ==
    \/ \E c \in Clients : Submit(c)
    \/ \E t \in 1..Len(tasks) : Start(t)
    \/ \E t \in 1..Len(tasks) : Finish(t)
    \/ \E c \in Clients : Collect(c)
    \/ \E c \in Clients : Return(c)
    \/ \E c \in Clients : Inline(c)

SpecPool == InitPool /\ [][NextPool]_vars

(***************************************************************************)
(* Claims about the shared executor, checked under SpecPool.               *)
(***************************************************************************)
\* the image URLs the prompts of request r can produce
OwnImages(r) ==
    {generate_image(r.story.chapters[i].image_prompt, 800, 600) :
        i \in {j \in 1..Len(r.story.chapters) :
                  HasKey(r.story.chapters[j], "image_prompt")}}

\* C11: requests that share the executor never read or write each other's
\* story: a request waits only on futures of tasks it submitted itself,
\* every image in its chapters comes from a prompt of one of its own
\* chapters (or is the fallback), and its cover comes from its own title.
C11_RequestsAreIsolated ==
    \A c \in Clients :
        /\ \A k \in 1..Len(reqs[c].futures) :
               /\ reqs[c].futures[k] \in 1..Len(tasks)
               /\ tasks[reqs[c].futures[k]].owner = c
        /\ \A i \in 1..Len(reqs[c].story.chapters) :
               HasKey(reqs[c].story.chapters[i], "image")
                   => reqs[c].story.chapters[i].image
                          \in OwnImages(reqs[c]) \cup {fallback_url}
        /\ \A k \in 1..Len(reqs[c].got) :
               reqs[c].got[k] = tasks[reqs[c].futures[k]].result
        /\ (reqs[c].op = "create" /\ reqs[c].pc = "returned")
               => reqs[c].cover \in
                      {generate_image(CoverPrompt(reqs[c].story.title), 400, 550),
                       cover_fallback}

\* both requests returned with their images, their tasks were queued
\* interleaved and the first task to complete was not the first submitted
C11_Witness ==
    /\ \A c \in Clients : reqs[c].pc = "returned" /\ reqs[c].status = 200
                          /\ ~reqs[c].fell_back
    /\ \E i, j, k \in 1..Len(tasks) :
           /\ i < j /\ j < k
           /\ tasks[i].owner = "A" /\ tasks[j].owner = "B" /\ tasks[k].owner = "A"
    /\ completed # <<>> /\ completed[1] # 1

\* C15: whatever the order of completion, chapter i gets the result of the
\* task that was submitted with chapter i's image_prompt, in /generate and
\* in /continue.
C15_ImagesMatchedByPosition ==
    \A c \in Clients :
        (reqs[c].pc = "returned" /\ reqs[c].status = 200 /\ ~reqs[c].fell_back
         /\ reqs[c].op \in {"create", "continue"})
        => \A i \in 1..Len(reqs[c].story.chapters) :
               LET t == tasks[reqs[c].futures[CoverTasks(reqs[c]) + i]]
                   chapter == reqs[c].story.chapters[i]
               IN  /\ t.prompt = chapter.image_prompt
                   /\ t.width = 800 /\ t.height = 600
                   /\ chapter.image = t.result
                   /\ chapter.image = generate_image(chapter.image_prompt, 800, 600)

\* a request returned its images although its last task completed before
\* its first one
C15_Witness ==
    \E c \in Clients :
        /\ reqs[c].pc = "returned" /\ reqs[c].status = 200 /\ ~reqs[c].fell_back
        /\ reqs[c].op \in {"create", "continue"}
        /\ Len(reqs[c].story.chapters) = 2
        /\ reqs[c].story.chapters[1].image # reqs[c].story.chapters[2].image
        /\ Len(CompletedOf(c)) = Len(reqs[c].futures)
        /\ CompletedOf(c)[1] = reqs[c].futures[Len(reqs[c].futures)]

\* C16: when generate_all_images_concurrent has returned, also through the
\* handler of lines 55-63, none of the tasks it submitted is pending or
\* running and every chapter has an image.  Violated by the code: the
\* handler returns without waiting for the tasks already submitted.
C16_ReturnsAfterAllTasks ==
    \A c \in Clients :
        (reqs[c].op = "create" /\ reqs[c].pc = "returned")
        => /\ \A k \in 1..Len(reqs[c].futures) :
                  tasks[reqs[c].futures[k]].state = "done"
           /\ \A i \in 1..Len(reqs[c].story.chapters) :
                  HasKey(reqs[c].story.chapters[i], "image")

(***************************************************************************)
(* SpecLadder: the fallback ladder of generate_story on every response     *)
(* text of at most MaxResponseLen tokens.                                  *)
(***************************************************************************)
MaxResponseLen == 3

ResponseTokens ==
    {Tok("prose"), Tok("fence_json"), Tok("fence"), Tok("lbrace"),
     Tok("rbrace"), ValTok, ObjTok(ModelStory(1, 1))}

RECURSIVE SeqsUpTo(_, _)
SeqsUpTo(S, n) ==
    IF n = 0 THEN {<<>>}
    ELSE LET shorter == SeqsUpTo(S, n - 1)
         IN  shorter \cup {Append(s, x) : s \in shorter, x \in S}

InitLadder ==
    /\ pc = "ready"
    /\ text = NoValue
    /\ selected = NoValue
    /\ oracle = NoValue
    /\ glossary = NoValue
    /\ calls = NoValue
    /\ story = NoValue
    /\ cover = NoValue
    /\ last = NoValue
    /\ response \in SeqsUpTo(ResponseTokens, MaxResponseLen)
    /\ extracted = NoValue
    /\ reqs = NoValue
    /\ tasks = NoValue
    /\ completed = NoValue

\* lines 214-238 on response_text
Extract ==
    /\ pc = "ready"
    /\ extracted' = Ladder(response)
    /\ pc' = "done"
    /\ UNCHANGED <<text, selected, oracle, glossary, calls, story, cover, last,
                   response, reqs, tasks, completed>>

NextLadder == Extract

SpecLadder == InitLadder /\ [][NextLadder]_vars

\* what generate_story goes on with: the parsed value, or the default
\* record (a JSONDecodeError raised in the handler of the first one ends
\* in the handler of line 246, which returns the same default record)
Outcome(l) ==
    IF l.status = "parsed" THEN [status |-> "parsed", v |-> l.v]
    ELSE [status |-> "default", v |-> NoValue]

\* The ladder as the specification states it.  Each strategy gives the
\* parse of the text it selects, or fails.
RefParse(found) == IF found.ok THEN JsonLoads(found.v) ELSE Failed

\* the contents of the first fenced block, when its fence has no tag
RefUntagged(ts) ==
    LET opens == {i \in 1..Len(ts) :
                     /\ IsFence(ts[i])
                     /\ \E j \in (i + 1)..Len(ts) : IsFence(ts[j])}
    IN  IF opens = {} THEN Failed
        ELSE IF ts[Min(opens)].k = "fence_json" THEN Failed
        ELSE SearchFence(ts)

RefStrategies(ts) ==
    << JsonLoads(ts),
       RefParse(SearchJsonFence(ts)),
       RefParse(RefUntagged(ts)),
       RefParse(SearchBraces(ts)) >>

RefExtract(ts) ==
    LET tried == RefStrategies(ts)
        good  == {k \in 1..Len(tried) : tried[k].ok}
    IN  IF good = {} THEN [status |-> "default", v |-> NoValue]
        ELSE [status |-> "parsed", v |-> tried[Min(good)].v]

\* C12: the extraction result is the parse of the first strategy that
\* succeeds in the order direct, json-tagged fence, untagged fence, brace
\* span; the default record is returned only when all four fail.  Violated
\* by the code: there is no untagged-fence step, and a json-tagged fence
\* whose contents do not parse ends the ladder.
C12_FirstSuccessfulStrategyWins ==
    pc = "done" => Outcome(extracted) = RefExtract(response)

(***************************************************************************)
(* Further claims about the three operations, checked under Spec.          *)
(***************************************************************************)
\* C13: on every path of an in-range Regenerate the chapter returned is
\* the chapter now stored at position chapterNumber-1 of the returned
\* story and has an image, and nothing else in the story changed.
\* Violated by the code: the placeholder chapter of the handler is
\* returned without being stored and without an image.
C13_ReturnedChapterIsStored ==
    [][ ( /\ last'.seq = last.seq + 1
          /\ last'.op = "regenerate"
          /\ ~OutOfRange(last'.request.chapter_number, story) )
        => LET n == last'.request.chapter_number IN
           /\ last'.status = 200
           /\ last'.result.story = story'
           /\ Len(story'.chapters) = Len(story.chapters)
           /\ last'.result.new_chapter = story'.chapters[n]
           /\ HasKey(last'.result.new_chapter, "image")
           /\ \A j \in 1..Len(story.chapters) :
                  j # n => story'.chapters[j] = story.chapters[j]
           /\ DOMAIN story' = DOMAIN story
           /\ \A k \in DOMAIN story \ {"chapters"} : story'[k] = story[k] ]_vars

\* a prompt generate_image cannot use
Unusable(chapter) ==
    ~HasKey(chapter, "image_prompt") \/ chapter.image_prompt = PyNone

\* C14: in the fan-out of Create, when one chapter's prompt is unusable the
\* fallback URL goes to that chapter only: the other chapters get the URL
\* of their own prompt and the cover the URL of its own prompt.  Violated
\* by the code: a chapter without image_prompt makes the whole batch fall
\* back.
C14_TaskFailureIsConfined ==
    ( /\ last.op = "create"
      /\ ~last.env.poolDown
      /\ HasKey(story, "title")
      /\ Cardinality({i \in 1..Len(story.chapters) : Unusable(story.chapters[i])}) = 1 )
    => /\ \A i \in 1..Len(story.chapters) :
              /\ HasKey(story.chapters[i], "image")
              /\ story.chapters[i].image =
                     IF Unusable(story.chapters[i]) THEN fallback_url
                     ELSE generate_image(story.chapters[i].image_prompt, 800, 600)
       /\ cover = generate_image(CoverPrompt(story.title), 400, 550)

\* the text-model call of the request was made: the prompt could be built
\* (lines 270-273 and 339-340 raise before the call otherwise)
ModelCalled(op, request, story_data) ==
    CASE op = "create" -> TRUE
      [] op = "regenerate" ->
            /\ ~OutOfRange(request.chapter_number, story_data)
            /\ HasKey(story_data, "title")
            /\ request.chapter_number > 1 =>
                   HasKey(story_data.chapters[request.chapter_number - 1], "content")
      [] op = "continue" ->
            /\ HasKey(story_data, "title")
            /\ story_data.chapters # <<>>
            /\ HasKey(story_data.chapters[Len(story_data.chapters)], "content")

\* C18: when the text-model call raises, Create returns a story titled
\* from the genre with the placeholder moral and one placeholder chapter
\* numbered 1, Regenerate a placeholder chapter numbered chapterNumber,
\* Continue one placeholder chapter numbered len(existing)+1.
C18_ModelFailureGivesDefault ==
    [][ ( /\ last'.seq = last.seq + 1
          /\ last'.env.resp = Raised
          /\ ~last'.env.poolDown
          /\ ModelCalled(last'.op, last'.request, story) )
        => /\ last'.status = 200
           /\ CASE last'.op = "create" ->
                     /\ story'.title = GenreTitle(last'.request.genre)
                     /\ story'.author = "AI Author"
                     /\ story'.moral = "Could not generate a moral for the story"
                     /\ Len(story'.chapters) = 1
                     /\ story'.chapters[1].chapter_number = 1
                     /\ story'.chapters[1].chapter_title = "Chapter 1"
                     /\ story'.chapters[1].content = StoryFailedText
                     /\ story'.chapters[1].terminology = <<>>
                [] last'.op = "regenerate" ->
                     /\ last'.result.new_chapter.chapter_number
                            = last'.request.chapter_number
                     /\ last'.result.new_chapter.chapter_title = "Regenerated Chapter"
                     /\ last'.result.new_chapter.content = RegenerateFailedText
                     /\ last'.result.new_chapter.terminology = <<>>
                [] last'.op = "continue" ->
                     /\ Len(last'.result.new_chapters) = 1
                     /\ last'.result.new_chapters[1].chapter_number
                            = Len(story.chapters) + 1
                     /\ last'.result.new_chapters[1].chapter_title = "New Chapter"
                     /\ last'.result.new_chapters[1].content = ContinueFailedText
                     /\ last'.result.new_chapters[1].terminology = <<>> ]_vars

\* the model raised during a Regenerate of chapter 2 of 3 and the caller
\* got the placeholder chapter numbered 2
C18_Witness ==
    /\ last.op = "regenerate"
    /\ last.env.resp = Raised
    /\ last.request.chapter_number = 2
    /\ Len(story.chapters) = 3
    /\ last.status = 200
    /\ last.result.new_chapter.chapter_number = 2
    /\ last.result.new_chapter.content = RegenerateFailedText

\* C19: Continue leaves the caller's story as it was: the response holds
\* the new chapters only, the caller's story after appending them is the
\* old story followed by them, and the cover is not touched.
C19_ContinueKeepsExistingStory ==
    [][ ( /\ last'.seq = last.seq + 1
          /\ last'.op = "continue" )
        => /\ cover' = cover
           /\ IF last'.status = 200
              THEN /\ DOMAIN last'.result = {"new_chapters"}
                   /\ DOMAIN story' = DOMAIN story
                   /\ \A k \in DOMAIN story \ {"chapters"} : story'[k] = story[k]
                   /\ story'.chapters = story.chapters \o last'.result.new_chapters
                   /\ \A i \in 1..Len(last'.result.new_chapters) :
                          HasKey(last'.result.new_chapters[i], "image")
              ELSE story' = story ]_vars

\* a Continue that returned two new chapters to a caller holding a story
\* of two chapters and a cover
C19_Witness ==
    /\ last.op = "continue"
    /\ last.status = 200
    /\ Len(last.result.new_chapters) = 2
    /\ Len(story.chapters) = 4
    /\ cover # NoValue

(***************************************************************************)
(* Further claims about extract_terminology, checked under SpecEnrich.     *)
(***************************************************************************)
\* C17: one call of extract_terminology asks the batched prompt exactly
\* once and before any single-word prompt, asks the single-word prompt at
\* most once per candidate, so makes at most 1 + 5 model calls; without
\* candidates it makes none.
C17_OneBatchThenOneRetryPerWord ==
    pc = "done" =>
        IF selected = <<>> THEN calls = <<>>
        ELSE /\ Len(calls) >= 1
             /\ calls[1] = BatchCall
             /\ \A i \in 2..Len(calls) :
                    /\ calls[i].kind = "retry"
                    /\ calls[i].word \in Range(selected)
             /\ \A i, j \in 2..Len(calls) :
                    i # j => calls[i].word # calls[j].word
             /\ Len(selected) <= 5
             /\ Len(calls) <= 1 + Len(selected)

\* five candidates, each asked again once after the batched prompt
C17_Witness ==
    /\ pc = "done"
    /\ Len(selected) = 5
    /\ Len(calls) = 6
    /\ \E w \in Range(selected) : oracle.retry[w].raised

\* C20: the terminology extract_terminology returns is a mapping whose
\* keys are candidate words of the text in their original casing and whose
\* values are never null and never the empty string.
C20_TerminologyWellFormed ==
    pc = "done" =>
        /\ \A i \in 1..Len(glossary) :
               /\ glossary[i].key \in Range(selected_words(text))
               /\ glossary[i].val # ""
               /\ glossary[i].val # PyNone
        /\ \A i, j \in 1..Len(glossary) :
               i # j => glossary[i].key # glossary[j].key

\* a mapping with a capitalised key, returned after the batched answer held
\* a null or blank value or lacked a key
C20_Witness ==
    /\ pc = "done"
    /\ Len(glossary) >= 2
    /\ \E i \in 1..Len(glossary) : glossary[i].key # Lower(glossary[i].key)
    /\ Len(calls) >= 2

(***************************************************************************)
(* SpecWide: the executor with more tasks than threads, and the threads    *)
(* that are scheduled fairly.  A /generate request for a grand story       *)
(* submits GrandChapters + 1 tasks; the smaller requests of SpecPool       *)
(* submit at the same time.                                                *)
(* The order of completion is not recorded here (pc = "wide").             *)
(***************************************************************************)
\* the longest story /generate asks for: 'grand'
GrandChapters == num_chapters("grand")

\* the image prompt of chapter n of the grand story
GrandPrompt(n) ==
    IF n % 2 = 1 THEN DragonPrompt ELSE KnightPrompt

\* /generate of a grand story whose chapters all have an image_prompt
RequestsGrand ==
    {Request("create", PoolStory(ModelTitle,
         [n \in 1..GrandChapters |-> PoolChapter(n, GrandPrompt(n))]))}

\* the requests that run at the same time: a grand /generate beside a
\* /regenerate, and the /generate requests of RequestsA beside each request
\* of RequestsB
WidePairs ==
    {<<a, b>> : a \in RequestsGrand,
                b \in {r \in RequestsB : r.op = "regenerate"}}
    \cup (RequestsA \X RequestsB)

InitWide ==
    /\ pc = "wide"
    /\ text = NoValue
    /\ selected = NoValue
    /\ oracle = NoValue
    /\ glossary = NoValue
    /\ calls = NoValue
    /\ story = NoValue
    /\ cover = NoValue
    /\ last = NoValue
    /\ response = NoValue
    /\ extracted = NoValue
    /\ \E p \in WidePairs :
           reqs = [c \in Clients |-> IF c = "A" THEN p[1] ELSE p[2]]
    /\ tasks = <<>>
    /\ completed = <<>>

\* the threads that run: each request thread and each worker thread gets
\* the processor again and again, and a started generate_image returns
FairPool ==
    /\ WF_vars(\E c \in Clients : Submit(c))
    /\ WF_vars(\E t \in 1..Len(tasks) : Start(t))
    /\ WF_vars(\E t \in 1..Len(tasks) : Finish(t))
    /\ WF_vars(\E c \in Clients : Collect(c))
    /\ WF_vars(\E c \in Clients : Return(c))
    /\ WF_vars(\E c \in Clients : Inline(c))

SpecWide == InitWide /\ [][NextPool]_vars /\ FairPool

(***************************************************************************)
(* Claims about the size of the pool and termination, checked under        *)
(* SpecWide.                                                               *)
(***************************************************************************)
\* the request of client c has submitted every task and holds a future
\* it has not read yet
AtJoin(c) == reqs[c].pc = "collect"

\* no thread runs more tasks than max_workers, a request that is
\* submitting can submit at once, a request that returned its images read
\* every future it holds, and some thread can take a step while a request
\* has not returned
PoolSafe ==
    /\ Cardinality(Running) <= max_workers
    /\ \A c \in Clients :
           (reqs[c].pc = "submit" /\ reqs[c].op \in {"create", "continue"})
               => ENABLED Submit(c)
    /\ \A c \in Clients :
           (reqs[c].pc = "returned" /\ reqs[c].status = 200
            /\ ~reqs[c].fell_back /\ reqs[c].op \in {"create", "continue"})
               => /\ Len(reqs[c].futures) = TasksOf(reqs[c])
                  /\ Len(reqs[c].got) = Len(reqs[c].futures)
    /\ (\E c \in Clients : reqs[c].pc # "returned") => ENABLED NextPool

\* a request that has returned stays returned
ReturnedForGood ==
    \A c \in Clients :
        reqs[c].pc = "returned" => reqs'[c].pc = "returned"

\* C21: with max_workers = 10 threads at most 10 tasks run at any time,
\* executor.submit never blocks the caller, no reachable state with a
\* request in flight is a deadlock, and every request returns for good,
\* having read every future of its fan-out when it returns its images:
\* so every request that is at its join leaves it.  This holds for the 11
\* tasks of a grand story and for requests that submit at the same time,
\* the threads being scheduled fairly and each image task finishing.
C21_PoolTerminates ==
    /\ []PoolSafe
    /\ [][ReturnedForGood]_vars
    /\ <>(\A c \in Clients : reqs[c].pc = "returned")

\* the pool is full: max_workers tasks of the grand story run, its last
\* task waits in the queue and the request is blocked at its join
C21_Witness ==
    /\ Cardinality(Running) = max_workers
    /\ \E t \in 1..Len(tasks) : tasks[t].state = "pending"
    /\ Len(reqs["A"].futures) = GrandChapters + 1
    /\ AtJoin("A")
    /\ reqs["A"].got = <<>>

=============================================================================
